---- MODULE Spec2Model ----
(***************************************************************************)
(* Model of the line reconciliation of AIService.getReview and of the      *)
(* structured fix application of FixApplicator (codereview-ai).            *)
(*                                                                         *)
(* Text is a sequence of one-character strings; "\n" is the line           *)
(* terminator.  A document is its text; its lines are split(text).         *)
(***************************************************************************)
EXTENDS Integers, Sequences, FiniteSets, TLC

VARIABLES
  docText,      \* content of the workspace file (doc.getText())
  issues,       \* result.issues of the parsed AI response
  rInput,       \* the issues as the AI reported them
  rFirst,       \* the issues as the first reconciliation run left them
  rIdx,         \* position of the for-of loop over result.issues
  rPass,        \* which run of the reconciliation loop is in progress
  rOutcome,     \* what the first run did with each issue
  rReturned,    \* what getReview has returned
  fix,          \* the fix given to applyFix
  showConfirmation, \* the showConfirmation argument of applyFix
  pc,           \* where applyFix stands (its awaits)
  result,       \* the FixApplicationResult applyFix resolves to
  origText,     \* content of the document when applyFix was called
  previewText,  \* content of the preview file (<file>.fixed)
  edited,       \* the workspace edit of this call has been applied
  choice,       \* the user's answer to the first prompt
  confirm2,     \* the user's answer to the prompt after Show Diff
  previewBy,    \* which function wrote the preview file
  saved,        \* doc.save() has persisted the document
  fixes,        \* the list given to applyMultipleFixes
  bIdx,         \* the loop index i of applyMultipleFixes (1-based here)
  succeeded,    \* count of successful fixes
  failed,       \* count of failed fixes
  errors,       \* the error entries
  files,        \* content of every file of the workspace
  bBefore,      \* content of the file of each fix when its applyFix was called
  bResults,     \* the result of applyFix for each fix processed so far
  filesAtStart, \* content of every file when applyMultipleFixes was called
  bReturned,    \* what applyMultipleFixes has returned
  qIssues,      \* the issues the diagnostics were made from
  fixesMap,     \* the module-level map from "uri:line:character" to a fix
  diagnostics,  \* the diagnostics of diagnosticCollection
  qReviews,     \* how many reviews have run
  qStage,       \* where the Quick Fix stands
  qDiag,        \* the diagnostic the code actions were asked for
  qAction,      \* the code action provideCodeActions returned
  history,      \* ReviewHistoryProvider.history
  savedHistory, \* the value of "reviewHistory" in globalState
  added,        \* the reviews added since the history was last cleared
  nAdded,       \* how many reviews have been added
  reviews,      \* the issues of every ReviewResult object
  livePanels,   \* how many webview panels exist
  currentPanel, \* ReviewWebviewPanel.currentPanel is defined
  panelReview,  \* _reviewResult of the panel
  rendered,     \* the review the html of the panel was built from
  lastPassed,   \* the review last passed to createOrShow or update
  dismissals,   \* the issues a dismissIssue message has reached
  lastOp        \* the last message handled and the review it worked on

rvars == <<issues, rInput, rFirst, rIdx, rPass, rOutcome, rReturned>>
fvars == <<fix, showConfirmation, pc, result, origText, previewText, edited,
           choice, confirm2, previewBy, saved>>
bvars == <<fixes, bIdx, succeeded, failed, errors, files, bBefore, bResults,
          filesAtStart, bReturned>>
qvars == <<qIssues, fixesMap, diagnostics, qReviews, qStage, qDiag, qAction>>
hvars == <<history, savedHistory, added, nAdded>>
pvars == <<reviews, livePanels, currentPanel, panelReview, rendered, lastPassed,
           dismissals, lastOp>>
xvars == <<qvars, hvars, pvars>>
vars == <<docText, rvars, fvars, bvars, xvars>>

----------------------------------------------------------------------------
(* Bounds *)

MaxLines == 3       \* most lines of a document
MaxIssues == 2      \* most issues of a review

----------------------------------------------------------------------------
(* Strings *)

NL == "\n"

IsWhiteSpace(c) == c \in {" ", "\t", "\n", "\r"}

RECURSIVE trimStart(_)
trimStart(s) ==
  IF s # <<>> /\ IsWhiteSpace(Head(s)) THEN trimStart(Tail(s)) ELSE s

RECURSIVE trimEnd(_)
trimEnd(s) ==
  IF s # <<>> /\ IsWhiteSpace(s[Len(s)])
    THEN trimEnd(SubSeq(s, 1, Len(s) - 1))
    ELSE s

\* String.prototype.trim
trim(s) == trimEnd(trimStart(s))

\* String.prototype.includes
includes(s, t) ==
  \E i \in 0..(Len(s) - Len(t)) : SubSeq(s, i + 1, i + Len(t)) = t

\* String.prototype.split("\n")
RECURSIVE split(_)
split(text) ==
  IF \A i \in 1..Len(text) : text[i] # NL
    THEN <<text>>
    ELSE LET k == CHOOSE i \in 1..Len(text) :
                    text[i] = NL /\ \A j \in 1..(i - 1) : text[j] # NL
         IN  <<SubSeq(text, 1, k - 1)>> \o split(SubSeq(text, k + 1, Len(text)))

\* Array.prototype.join("\n")
RECURSIVE join(_)
join(ls) ==
  IF Len(ls) = 0 THEN <<>>
  ELSE IF Len(ls) = 1 THEN ls[1]
  ELSE ls[1] \o <<NL>> \o join(Tail(ls))

----------------------------------------------------------------------------
(* FixApplicationResult and the fixes given to applyFix *)

NoError == [kind |-> "none", value |-> 0, lo |-> 0, hi |-> 0]
NoLines == [start |-> 0, end |-> 0]

\* applyFix has not resolved yet
Pending == [success |-> FALSE, error |-> NoError, appliedLines |-> NoLines]

\* { success: false, error }
Failure(kind, value, lo, hi) ==
  [success |-> FALSE,
   error |-> [kind |-> kind, value |-> value, lo |-> lo, hi |-> hi],
   appliedLines |-> NoLines]

\* { success: true, appliedLines: { start, end } }
Success(f) ==
  [success |-> TRUE, error |-> NoError,
   appliedLines |-> [start |-> f.startLine, end |-> f.endLine]]

\* a suggestedFix that is a plain string, not JSON
FreeTextFix ==
  [form |-> "text", type |-> "none", startLine |-> 0, endLine |-> 0,
   newCode |-> <<>>]

\* no diagnostics have been issued
NoQuickFix ==
  /\ qIssues = <<>>
  /\ fixesMap = <<>>
  /\ diagnostics = <<>>
  /\ qReviews = 0
  /\ qStage = "idle"
  /\ qDiag = 0
  /\ qAction = [kind |-> "none"]

\* the history provider is not in use
NoHistory ==
  /\ history = <<>>
  /\ savedHistory = <<>>
  /\ added = <<>>
  /\ nAdded = 0

\* no review panel has been opened
NoPanel ==
  /\ reviews = <<>>
  /\ livePanels = 0
  /\ currentPanel = FALSE
  /\ panelReview = 0
  /\ rendered = [id |-> 0, issues |-> <<>>]
  /\ lastPassed = 0
  /\ dismissals = {}
  /\ lastOp = [type |-> "none", review |-> 0, index |-> 0, n |-> 0]

\* applyMultipleFixes is not running
NoBatch ==
  /\ fixes = <<>>
  /\ bIdx = 1
  /\ succeeded = 0
  /\ failed = 0
  /\ errors = <<>>
  /\ files = <<>>
  /\ bBefore = <<>>
  /\ bResults = <<>>
  /\ filesAtStart = <<>>
  /\ bReturned = "none"

----------------------------------------------------------------------------
(* Line reconciliation: AIService.getReview, line verification *)

SnippetMinLen == 5

\* the for loop that searches the snippet, from line index i (1-based here)
RECURSIVE searchSnippetLast(_, _, _)
searchSnippetLast(lines, normalizedSnippet, i) ==
  IF i > Len(lines) THEN 0
  ELSE LET later == searchSnippetLast(lines, normalizedSnippet, i + 1)
       IN  IF later # 0 THEN later
           ELSE IF includes(trim(lines[i]), normalizedSnippet) THEN i ELSE 0

RECURSIVE searchSnippetZeroBased(_, _, _)
searchSnippetZeroBased(lines, normalizedSnippet, i) ==
  IF i > Len(lines) THEN 0
  ELSE IF includes(trim(lines[i]), normalizedSnippet) THEN i - 1
  ELSE searchSnippetZeroBased(lines, normalizedSnippet, i + 1)

RECURSIVE searchSnippet(_, _, _)
searchSnippet(lines, normalizedSnippet, i) ==
  IF i > Len(lines) THEN 0
  ELSE IF includes(trim(lines[i]), normalizedSnippet) THEN i
  ELSE searchSnippet(lines, normalizedSnippet, i + 1)

\* lines[issue.line - 1] || ""
currentLineContent(lines, line) ==
  IF line \in 1..Len(lines) THEN lines[line] ELSE <<>>

\* the body of the try block once the document is open
verifyLineAlwaysSearch(issue, text) ==
  LET lines == split(text)
      normalizedSnippet == trim(issue.codeSnippet)
      found == searchSnippet(lines, normalizedSnippet, 1)
  IN  IF Len(normalizedSnippet) > SnippetMinLen /\ found # 0
        THEN [issue EXCEPT !.line = found]
        ELSE issue

verifyLineNoLengthCheck(issue, text) ==
  LET lines == split(text)
      normalizedSnippet == trim(issue.codeSnippet)
      normalizedLine == trim(currentLineContent(lines, issue.line))
      found == searchSnippet(lines, normalizedSnippet, 1)
  IN  IF ~includes(normalizedLine, normalizedSnippet) /\ found # 0
        THEN [issue EXCEPT !.line = found]
        ELSE issue

verifyLine(issue, text) ==
  LET lines == split(text)
      normalizedSnippet == trim(issue.codeSnippet)
      normalizedLine == trim(currentLineContent(lines, issue.line))
      found == searchSnippet(lines, normalizedSnippet, 1)
  IN  IF ~includes(normalizedLine, normalizedSnippet)
         /\ Len(normalizedSnippet) > SnippetMinLen
         /\ found # 0
        THEN [issue EXCEPT !.line = found]
        ELSE issue

\* if (issue.codeSnippet): absent and empty snippets are falsy
hasSnippet(issue) == issue.hasSnippet /\ issue.codeSnippet # <<>>

(* Inputs of the reconciliation *)

LineFoo    == <<" ", " ", "f", "o", "o", "(", "x", ")", ";">>
LineAssign == <<"y", " ", "=", " ", "f", "o", "o", "(", "x", ")">>

SourceLines == {LineFoo, LineAssign}

RECURSIVE SeqsUpTo(_, _)
SeqsUpTo(S, n) ==
  IF n = 0 THEN {<<>>}
  ELSE LET shorter == SeqsUpTo(S, n - 1)
       IN  shorter \cup {Append(s, x) : s \in {t \in shorter : Len(t) = n - 1}, x \in S}

\* workspace files: every file of 1..MaxLines source lines, and the empty file
SourceFiles ==
  {join(ls) : ls \in SeqsUpTo(SourceLines, MaxLines) \ {<<>>}} \cup {<<>>}

SnippetPadded == <<" ", "f", "o", "o", "(", "x", ")", "\t">>
SnippetAssign == <<"y", " ", "=", " ", "f", "o", "o">>
SnippetFive   == <<" ", "f", "o", "o", "(", "x">>

Snippets == {SnippetPadded, SnippetAssign, SnippetFive}

ReportedIssues ==
  {[line |-> l, hasSnippet |-> TRUE, codeSnippet |-> s] :
      l \in 0..(MaxLines + 1), s \in Snippets}
  \cup {[line |-> l, hasSnippet |-> FALSE, codeSnippet |-> <<>>] :
      l \in 0..(MaxLines + 1)}

InitReconcile ==
  /\ docText \in SourceFiles
  /\ issues \in SeqsUpTo(ReportedIssues, MaxIssues) \ {<<>>}
  /\ rInput = issues
  /\ rFirst = <<>>
  /\ rIdx = 1
  /\ rPass = 1
  /\ rOutcome = [k \in 1..Len(issues) |-> "pending"]
  /\ rReturned = "none"
  /\ fix = FreeTextFix
  /\ showConfirmation = FALSE
  /\ pc = "idle"
  /\ result = Pending
  /\ origText = docText
  /\ previewText = <<>>
  /\ edited = FALSE
  /\ choice = "none"
  /\ confirm2 = "none"
  /\ previewBy = "none"
  /\ saved = FALSE
  /\ NoBatch
  /\ NoQuickFix
  /\ NoHistory
  /\ NoPanel

Record(k, what) == IF rPass = 1 THEN [rOutcome EXCEPT ![k] = what] ELSE rOutcome

\* if (issue.codeSnippet) is false: the issue is passed over
VerifySkip ==
  /\ rReturned = "none"
  /\ rIdx <= Len(issues)
  /\ ~hasSnippet(issues[rIdx])
  /\ rIdx' = rIdx + 1
  /\ rOutcome' = Record(rIdx, "skipped")
  /\ UNCHANGED <<xvars, docText, issues, rInput, rFirst, rPass, rReturned, fvars, bvars>>

\* openTextDocument rejects: the catch block warns and the loop goes on
VerifyOpenFails ==
  /\ rReturned = "none"
  /\ rIdx <= Len(issues)
  /\ hasSnippet(issues[rIdx])
  /\ rIdx' = rIdx + 1
  /\ rOutcome' = Record(rIdx, "warned")
  /\ UNCHANGED <<xvars, docText, issues, rInput, rFirst, rPass, rReturned, fvars, bvars>>

\* the document opens: the claimed line is checked and, on a mismatch, searched
VerifyIssue ==
  /\ rReturned = "none"
  /\ rIdx <= Len(issues)
  /\ hasSnippet(issues[rIdx])
  /\ issues' = [issues EXCEPT ![rIdx] = verifyLine(@, docText)]
  /\ rIdx' = rIdx + 1
  /\ rOutcome' = Record(rIdx, "verified")
  /\ UNCHANGED <<xvars, docText, rInput, rFirst, rPass, rReturned, fvars, bvars>>

\* the loop is over: return result
ReturnResult ==
  /\ rReturned = "none"
  /\ rIdx > Len(issues)
  /\ rReturned' = "result"
  /\ UNCHANGED <<xvars, docText, issues, rInput, rFirst, rIdx, rPass, rOutcome, fvars, bvars>>

\* the reconciliation loop is run once more over its own result
VerifyAgain ==
  /\ rReturned = "result"
  /\ rPass = 1
  /\ rFirst' = issues
  /\ rIdx' = 1
  /\ rPass' = 2
  /\ rReturned' = "none"
  /\ UNCHANGED <<xvars, docText, issues, rInput, rOutcome, fvars, bvars>>

NextReconcile ==
  \/ VerifySkip
  \/ VerifyOpenFails
  \/ VerifyIssue
  \/ ReturnResult
  \/ VerifyAgain

SpecReconcile == InitReconcile /\ [][NextReconcile]_vars

----------------------------------------------------------------------------
(* The editor: documents, positions, ranges, edits *)

Max(a, b) == IF a >= b THEN a ELSE b
Min(a, b) == IF a <= b THEN a ELSE b

\* doc.lineCount
lineCount(text) == Len(split(text))

\* offset of the first character of the line of 0-based index l
RECURSIVE lineOffset(_, _)
lineOffset(lines, l) ==
  IF l = 0 THEN 0 ELSE lineOffset(lines, l - 1) + Len(lines[l]) + 1

\* new vscode.Range(startLine, startCharacter, endLine, endCharacter):
\* start and end are swapped when start is after end
Range(sl, sc, el, ec) ==
  IF sl < el \/ (sl = el /\ sc <= ec)
    THEN [start |-> [line |-> sl, character |-> sc],
          end |-> [line |-> el, character |-> ec]]
    ELSE [start |-> [line |-> el, character |-> ec],
          end |-> [line |-> sl, character |-> sc]]

\* doc.offsetAt(position); the position is first adjusted to the document: a
\* line past the last one is the end of the document
offsetAt(text, position) ==
  LET lines == split(text)
  IN  IF position.line >= Len(lines) THEN Len(text)
      ELSE IF position.line < 0 THEN 0
      ELSE lineOffset(lines, position.line)
           + Min(Max(position.character, 0), Len(lines[position.line + 1]))

\* original.slice(0, startOffset) + inserted + original.slice(endOffset)
splice(text, startOffset, endOffset, inserted) ==
  SubSeq(text, 1, startOffset) \o inserted \o SubSeq(text, endOffset + 1, Len(text))

----------------------------------------------------------------------------
(* FixApplicator *)

\* the fields of a fix that are undefined (a fix of malformed shape)
Absent(f) == IF "absent" \in DOMAIN f THEN f.absent ELSE {}

\* parseFixFormat: a CodeFix object is returned as it is; a JSON string is
\* returned when it has type, startLine and newCode; any other string gives
\* null
parseFixFormat(f) ==
  \/ f.form = "object"
  \/ /\ f.form = "json"
     /\ {"type", "startLine", "newCode"} \cap Absent(f) = {}

\* the line number validation of applyFix; NoError when the fix passes
validateStartOnly(f, n) ==
  IF f.startLine < 1 \/ f.startLine > n + 1
    THEN [kind |-> "StartLine", value |-> f.startLine, lo |-> 1, hi |-> n + 1]
    ELSE NoError

validateEndOnly(f, n) ==
  IF f.endLine < 1 \/ f.endLine > n
    THEN [kind |-> "EndLine", value |-> f.endLine, lo |-> 1, hi |-> n]
    ELSE NoError

validate(f, n) ==
  IF "startLine" \notin Absent(f) /\ (f.startLine < 1 \/ f.startLine > n + 1)
    THEN [kind |-> "StartLine", value |-> f.startLine, lo |-> 1, hi |-> n + 1]
  ELSE IF "endLine" \notin Absent(f) /\ (f.endLine < 1 \/ f.endLine > n)
    THEN [kind |-> "EndLine", value |-> f.endLine, lo |-> 1, hi |-> n]
  ELSE NoError

createRangeDeleteKeepsLast(text, f) ==
  LET lines == split(text)
      startLineIdx == Max(0, f.startLine - 1)
      endLineIdx == Min(Max(0, f.endLine - 1), Len(lines) - 1)
  IN  IF f.type = "insert" THEN Range(startLineIdx, 0, startLineIdx, 0)
      ELSE IF f.type = "delete" THEN Range(startLineIdx, 0, endLineIdx, 0)
      ELSE Range(startLineIdx, 0, endLineIdx,
                 IF endLineIdx < Len(lines) THEN Len(lines[endLineIdx + 1]) ELSE 0)

createRangeReplaceToLineStart(text, f) ==
  LET lines == split(text)
      startLineIdx == Max(0, f.startLine - 1)
      endLineIdx == Min(Max(0, f.endLine - 1), Len(lines) - 1)
  IN  IF f.type = "insert" THEN Range(startLineIdx, 0, startLineIdx, 0)
      ELSE IF f.type = "delete"
        THEN Range(startLineIdx, 0, Min(endLineIdx + 1, Len(lines)), 0)
      ELSE Range(startLineIdx, 0, endLineIdx, 0)

createRangeReplaceThroughTerminator(text, f) ==
  LET lines == split(text)
      startLineIdx == Max(0, f.startLine - 1)
      endLineIdx == Min(Max(0, f.endLine - 1), Len(lines) - 1)
  IN  IF f.type = "insert" THEN Range(startLineIdx, 0, startLineIdx, 0)
      ELSE Range(startLineIdx, 0, Min(endLineIdx + 1, Len(lines)), 0)

createRange(text, f) ==
  LET lines == split(text)
      startLineIdx == Max(0, f.startLine - 1)
      endLineIdx == Min(Max(0, f.endLine - 1), Len(lines) - 1)
  IN  IF f.type = "insert" THEN Range(startLineIdx, 0, startLineIdx, 0)
      ELSE IF f.type = "delete"
        THEN LET deleteEndLine == Min(endLineIdx + 1, Len(lines))
             IN  Range(startLineIdx, 0, deleteEndLine, 0)
      ELSE LET endChar == IF endLineIdx < Len(lines)
                            THEN Len(lines[endLineIdx + 1]) ELSE 0
           IN  Range(startLineIdx, 0, endLineIdx, endChar)

\* the content of the document once the WorkspaceEdit that applyFix builds
\* (edit.replace / edit.insert / edit.delete) has been applied
applyEdit(text, f) ==
  LET range == createRange(text, f)
      startOffset == offsetAt(text, range.start)
      endOffset == offsetAt(text, range.end)
  IN  IF f.type = "replace" THEN splice(text, startOffset, endOffset, f.newCode)
      ELSE IF f.type = "insert"
        THEN splice(text, startOffset, startOffset, f.newCode \o <<NL>>)
      ELSE IF f.type = "delete" THEN splice(text, startOffset, endOffset, <<>>)
      ELSE text

\* the content showDiffPreview writes to the preview file
showDiffPreview(text, f) ==
  LET range == createRange(text, f)
      startOffset == offsetAt(text, range.start)
      endOffset == offsetAt(text, range.end)
  IN  IF f.type = "replace" THEN splice(text, startOffset, endOffset, f.newCode)
      ELSE IF f.type = "insert"
        THEN splice(text, startOffset, startOffset, f.newCode \o <<NL>>)
      ELSE IF f.type = "delete" THEN splice(text, startOffset, endOffset, <<>>)
      ELSE text

\* String.prototype.endsWith("\n")
endsWithNL(code) == code # <<>> /\ code[Len(code)] = NL

\* the content FixApplicator.showDiff writes to the preview file
showDiff(text, f) ==
  LET range == createRange(text, f)
      startOffset == offsetAt(text, range.start)
      endOffset == offsetAt(text, range.end)
      insertCode == IF endsWithNL(f.newCode) THEN f.newCode ELSE f.newCode \o <<NL>>
  IN  IF f.type = "replace" THEN splice(text, startOffset, endOffset, f.newCode)
      ELSE IF f.type = "insert"
        THEN splice(text, startOffset, startOffset, insertCode)
      ELSE IF f.type = "delete" THEN splice(text, startOffset, endOffset, <<>>)
      ELSE text

(* Inputs of applyFix *)

LineA     == <<"a">>
LineBB    == <<"b", "b">>
LineEmpty == <<>>

DocLines == {LineA, LineBB, LineEmpty}

\* documents of 1..MaxLines lines
Documents == {join(ls) : ls \in SeqsUpTo(DocLines, MaxLines) \ {<<>>}}

CodeOneLine  == <<"B">>
CodeNewline  == <<"X", "\n">>
CodeTwoLines == <<"P", "\n", "Q">>

NewCodes == {CodeOneLine, CodeNewline, CodeTwoLines}

FixTypes == {"replace", "insert", "delete"}

CodeFixes ==
  {[form |-> "object", type |-> t, startLine |-> s, endLine |-> e, newCode |-> c] :
      t \in FixTypes, s \in 0..(MaxLines + 2), e \in 0..(MaxLines + 2),
      c \in NewCodes}

InitFix ==
  /\ docText \in Documents
  /\ fix \in CodeFixes \cup {FreeTextFix}
  /\ showConfirmation \in BOOLEAN
  /\ pc = "call"
  /\ result = Pending
  /\ origText = docText
  /\ previewText = <<>>
  /\ edited = FALSE
  /\ choice = "none"
  /\ confirm2 = "none"
  /\ previewBy = "none"
  /\ saved = FALSE
  /\ NoBatch
  /\ issues = <<>>
  /\ rInput = <<>>
  /\ rFirst = <<>>
  /\ rIdx = 1
  /\ rPass = 1
  /\ rOutcome = <<>>
  /\ rReturned = "none"
  /\ NoQuickFix
  /\ NoHistory
  /\ NoPanel

\* applyFix resolves to r
Resolve(r) ==
  /\ pc' = "done"
  /\ result' = r

\* no workspace folder is open
FixNoWorkspace ==
  /\ pc = "call"
  /\ Resolve(Failure("NoWorkspace", 0, 0, 0))
  /\ UNCHANGED <<xvars, docText, rvars, bvars, fix, showConfirmation, origText, previewText, edited,
                  choice, confirm2, previewBy, saved>>

\* workspaceFolders is an empty array (a workspace without folders):
\* workspaceFolders?.[0].uri throws before the try block, applyFix rejects
FixThrows ==
  /\ pc = "call"
  /\ pc' = "thrown"
  /\ UNCHANGED <<xvars, docText, rvars, bvars, fix, showConfirmation, result, origText, previewText,
                  edited, choice, confirm2, previewBy, saved>>

\* FixApplicator.showDiff (the showFixDiff message of the review panel) runs
\* on the document before the fix is applied and writes the preview file
ShowDiff ==
  /\ pc = "call"
  /\ previewBy = "none"
  /\ parseFixFormat(fix)
  /\ previewText' = showDiff(docText, fix)
  /\ previewBy' = "showDiff"
  /\ UNCHANGED <<xvars, docText, rvars, bvars, fix, showConfirmation, pc, result, origText, edited,
                  choice, confirm2, saved>>

\* openTextDocument rejects: the catch block returns the error
FixOpenFails ==
  /\ pc = "call"
  /\ Resolve(Failure("OpenFailed", 0, 0, 0))
  /\ UNCHANGED <<xvars, docText, rvars, bvars, fix, showConfirmation, origText, previewText, edited,
                  choice, confirm2, previewBy, saved>>

\* openTextDocument resolves
FixOpen ==
  /\ pc = "call"
  /\ pc' = "opened"
  /\ UNCHANGED <<xvars, docText, rvars, bvars, fix, showConfirmation, result, origText, previewText,
                  edited, choice, confirm2, previewBy, saved>>

\* parseFixFormat returns null
FixInvalidFormat ==
  /\ pc = "opened"
  /\ ~parseFixFormat(fix)
  /\ Resolve(Failure("InvalidFormat", 0, 0, 0))
  /\ UNCHANGED <<xvars, docText, rvars, bvars, fix, showConfirmation, origText, previewText, edited,
                  choice, confirm2, previewBy, saved>>

\* the line numbers are out of range
FixInvalidRange ==
  /\ pc = "opened"
  /\ parseFixFormat(fix)
  /\ validate(fix, lineCount(docText)) # NoError
  /\ Resolve([Pending EXCEPT !.error = validate(fix, lineCount(docText))])
  /\ UNCHANGED <<xvars, docText, rvars, bvars, fix, showConfirmation, origText, previewText, edited,
                  choice, confirm2, previewBy, saved>>

\* const success = await vscode.workspace.applyEdit(edit)
ApplyTheEdit ==
  \/ /\ docText' = applyEdit(docText, fix)
     /\ edited' = TRUE
     /\ pc' = "save"
     /\ UNCHANGED result
  \/ /\ Resolve(Failure("ApplyFailed", 0, 0, 0))
     /\ UNCHANGED <<docText, edited>>

\* the fix is valid and showConfirmation is true: the modal prompt is shown
FixPrompt ==
  /\ pc = "opened"
  /\ parseFixFormat(fix)
  /\ validate(fix, lineCount(docText)) = NoError
  /\ showConfirmation
  /\ pc' = "confirm"
  /\ UNCHANGED <<xvars, docText, rvars, bvars, fix, showConfirmation, result, origText, previewText,
                  edited, choice, confirm2, previewBy, saved>>

\* the fix is valid and showConfirmation is false: the edit is built and applied
FixApplyUnconfirmed ==
  /\ pc = "opened"
  /\ parseFixFormat(fix)
  /\ validate(fix, lineCount(docText)) = NoError
  /\ ~showConfirmation
  /\ ApplyTheEdit
  /\ UNCHANGED <<xvars, rvars, bvars, fix, showConfirmation, origText, previewText,
                  choice, confirm2, previewBy, saved>>

\* choice === "Apply"
FixChooseApply ==
  /\ pc = "confirm"
  /\ ApplyTheEdit
  /\ choice' = "Apply"
  /\ UNCHANGED <<xvars, rvars, bvars, fix, showConfirmation, origText, previewText,
                  confirm2, previewBy, saved>>

\* choice === "Show Diff": showDiffPreview writes the preview file and the
\* second prompt is shown
FixChooseShowDiff ==
  /\ pc = "confirm"
  /\ previewText' = showDiffPreview(docText, fix)
  /\ pc' = "confirm2"
  /\ choice' = "Show Diff"
  /\ previewBy' = "showDiffPreview"
  /\ UNCHANGED <<xvars, docText, rvars, bvars, fix, showConfirmation, result, origText, edited,
                  confirm2, saved>>

\* choice === "Show Diff" and showDiffPreview throws (the preview file cannot
\* be written, the diff command fails)
FixShowDiffFails ==
  /\ pc = "confirm"
  /\ Resolve(Failure("DiffFailed", 0, 0, 0))
  /\ choice' = "Show Diff"
  /\ UNCHANGED <<xvars, docText, rvars, bvars, fix, showConfirmation, origText, previewText, edited,
                  confirm2, previewBy, saved>>

\* choice is "Cancel" or undefined (the dialog is dismissed)
FixCancel ==
  /\ pc = "confirm"
  /\ Resolve(Failure("UserCancelled", 0, 0, 0))
  /\ choice' \in {"Cancel", "undefined"}
  /\ UNCHANGED <<xvars, docText, rvars, bvars, fix, showConfirmation, origText, previewText, edited,
                  confirm2, previewBy, saved>>

\* confirm2 === "Apply"
FixConfirmApply ==
  /\ pc = "confirm2"
  /\ ApplyTheEdit
  /\ confirm2' = "Apply"
  /\ UNCHANGED <<xvars, rvars, bvars, fix, showConfirmation, origText, previewText,
                  choice, previewBy, saved>>

FixCancelAfterDiffApplies ==
  /\ pc = "confirm2"
  /\ confirm2' \in {"Cancel", "undefined"}
  /\ ApplyTheEdit
  /\ UNCHANGED <<xvars, rvars, bvars, fix, showConfirmation, origText, previewText,
                  choice, previewBy, saved>>

\* confirm2 !== "Apply"
FixCancelAfterDiff ==
  /\ pc = "confirm2"
  /\ Resolve(Failure("UserCancelled", 0, 0, 0))
  /\ confirm2' \in {"Cancel", "undefined"}
  /\ UNCHANGED <<xvars, docText, rvars, bvars, fix, showConfirmation, origText, previewText, edited,
                  choice, previewBy, saved>>

\* await doc.save() resolves to true: the file has been saved
FixSave ==
  /\ pc = "save"
  /\ pc' = "show"
  /\ saved' = TRUE
  /\ UNCHANGED <<xvars, docText, rvars, bvars, fix, showConfirmation, result, origText, previewText,
                  edited, choice, confirm2, previewBy>>

\* await doc.save() resolves to false: the file could not be saved; the
\* value is not looked at
FixSaveNotSaved ==
  /\ pc = "save"
  /\ pc' = "show"
  /\ UNCHANGED <<xvars, docText, rvars, bvars, fix, showConfirmation, result, origText, previewText,
                  edited, choice, confirm2, previewBy, saved>>

\* await doc.save() rejects
FixSaveFails ==
  /\ pc = "save"
  /\ Resolve(Failure("SaveFailed", 0, 0, 0))
  /\ UNCHANGED <<xvars, docText, rvars, bvars, fix, showConfirmation, origText, previewText, edited,
                  choice, confirm2, previewBy, saved>>

\* showTextDocument resolves, the line is revealed, applyFix returns success
FixShow ==
  /\ pc = "show"
  /\ Resolve(Success(fix))
  /\ UNCHANGED <<xvars, docText, rvars, bvars, fix, showConfirmation, origText, previewText, edited,
                  choice, confirm2, previewBy, saved>>

\* showTextDocument rejects
FixShowFails ==
  /\ pc = "show"
  /\ Resolve(Failure("ShowFailed", 0, 0, 0))
  /\ UNCHANGED <<xvars, docText, rvars, bvars, fix, showConfirmation, origText, previewText, edited,
                  choice, confirm2, previewBy, saved>>

NextFix ==
  \/ ShowDiff
  \/ FixNoWorkspace
  \/ FixThrows
  \/ FixOpenFails
  \/ FixOpen
  \/ FixInvalidFormat
  \/ FixInvalidRange
  \/ FixPrompt
  \/ FixApplyUnconfirmed
  \/ FixChooseApply
  \/ FixChooseShowDiff
  \/ FixShowDiffFails
  \/ FixCancel
  \/ FixConfirmApply
  \/ FixCancelAfterDiff
  \/ FixSave
  \/ FixSaveNotSaved
  \/ FixSaveFails
  \/ FixShow
  \/ FixShowFails

SpecFix == InitFix /\ [][NextFix]_vars

\* while applyFix awaits the answer to a prompt, the document is changed by
\* another writer (here: it loses its last lines)
ExternalEdit ==
  /\ pc \in {"confirm", "confirm2"}
  /\ \E k \in 1..(lineCount(docText) - 1) :
       docText' = join(SubSeq(split(docText), 1, k))
  /\ UNCHANGED <<xvars, rvars, bvars, fvars>>

NextFixConcurrent ==
  \/ NextFix
  \/ ExternalEdit

SpecFixConcurrent == InitFix /\ [][NextFixConcurrent]_vars

(* applyFix on fixes of malformed shape *)

\* a type that is none of replace / insert / delete
MalformedType ==
  {[form |-> fm, type |-> "other", startLine |-> s, endLine |-> e,
    newCode |-> CodeOneLine, absent |-> {}] :
      fm \in {"object", "json"}, s \in 0..(MaxLines + 1), e \in 0..(MaxLines + 1)}

\* an insert without endLine (its range does not depend on endLine)
MissingEndLine ==
  {[form |-> fm, type |-> "insert", startLine |-> s, endLine |-> 0,
    newCode |-> c, absent |-> {"endLine"}] :
      fm \in {"object", "json"}, s \in 0..(MaxLines + 2), c \in NewCodes}

\* a JSON string without type, startLine or newCode
MissingRequired ==
  {[form |-> "json", type |-> IF a = "type" THEN "other" ELSE t,
    startLine |-> 1, endLine |-> 1, newCode |-> CodeOneLine, absent |-> {a}] :
      t \in FixTypes, a \in {"type", "startLine", "newCode"}}

MalformedFixes == MalformedType \cup MissingEndLine \cup MissingRequired

InitMalformed ==
  /\ docText \in Documents
  /\ fix \in MalformedFixes
  /\ showConfirmation \in BOOLEAN
  /\ pc = "call"
  /\ result = Pending
  /\ origText = docText
  /\ previewText = <<>>
  /\ edited = FALSE
  /\ choice = "none"
  /\ confirm2 = "none"
  /\ previewBy = "none"
  /\ saved = FALSE
  /\ NoBatch
  /\ issues = <<>>
  /\ rInput = <<>>
  /\ rFirst = <<>>
  /\ rIdx = 1
  /\ rPass = 1
  /\ rOutcome = <<>>
  /\ rReturned = "none"
  /\ NoQuickFix
  /\ NoHistory
  /\ NoPanel

SpecMalformed == InitMalformed /\ [][NextFix]_vars

(* A replace fix followed by its inverse *)

\* the replace fix that puts back the text lines startLine..endLine of the
\* document had before f
inverseFix(text, f) ==
  [f EXCEPT !.newCode = join(SubSeq(split(text), f.startLine, f.endLine))]

InitRoundTrip ==
  /\ docText \in Documents
  /\ fix \in {f \in CodeFixes :
               f.type = "replace" /\ validate(f, lineCount(docText)) = NoError}
  /\ showConfirmation = FALSE
  /\ pc = "forward"
  /\ result = Pending
  /\ origText = docText
  /\ previewText = docText
  /\ edited = FALSE
  /\ choice = "none"
  /\ confirm2 = "none"
  /\ previewBy = "none"
  /\ saved = FALSE
  /\ NoBatch
  /\ NoQuickFix
  /\ NoHistory
  /\ NoPanel
  /\ issues = <<>>
  /\ rInput = <<>>
  /\ rFirst = <<>>
  /\ rIdx = 1
  /\ rPass = 1
  /\ rOutcome = <<>>
  /\ rReturned = "none"

\* the fix is applied to the document and previewed by showDiffPreview
RoundTripApply ==
  /\ pc = "forward"
  /\ docText' = applyEdit(docText, fix)
  /\ previewText' = showDiffPreview(previewText, fix)
  /\ pc' = "inverse"
  /\ UNCHANGED <<xvars, rvars, bvars, fix, showConfirmation, result, origText,
                  edited, choice, confirm2, previewBy, saved>>

\* the inverse fix is applied to the result and to the preview
RoundTripInverse ==
  /\ pc = "inverse"
  /\ docText' = applyEdit(docText, inverseFix(origText, fix))
  /\ previewText' = showDiffPreview(previewText, inverseFix(origText, fix))
  /\ pc' = "back"
  /\ UNCHANGED <<xvars, rvars, bvars, fix, showConfirmation, result, origText,
                  edited, choice, confirm2, previewBy, saved>>

NextRoundTrip ==
  \/ RoundTripApply
  \/ RoundTripInverse

SpecRoundTrip == InitRoundTrip /\ [][NextRoundTrip]_vars

(* FixApplicator.applyMultipleFixes *)

MaxFixes == 2       \* most fixes of a batch

BatchFileNames == {"a.ts", "b.ts"}

\* a document of MaxLines lines and a document of one line
BatchDocuments ==
  {join([i \in 1..MaxLines |-> IF i = 2 THEN LineBB ELSE LineA]), join(<<LineA>>)}

\* fixes of one line, at the first two lines
BatchCodeFixes ==
  {[form |-> "object", type |-> t, startLine |-> l, endLine |-> l,
    newCode |-> CodeOneLine] : t \in FixTypes, l \in {1, 2}}

\* the elements { file, fix } of the list
BatchItems ==
  {[file |-> f, fix |-> x] :
      f \in BatchFileNames, x \in BatchCodeFixes \cup {FreeTextFix}}

\* `${fixes[i].file}: ${result.error || "Unknown error"}`
errorEntry(item, r) ==
  [file |-> item.file,
   error |-> IF r.error = NoError
               THEN [NoError EXCEPT !.kind = "Unknown error"]
               ELSE r.error]

InitBatch ==
  /\ fixes \in SeqsUpTo(BatchItems, MaxFixes) \ {<<>>}
  /\ \E d \in BatchDocuments : files = [f \in BatchFileNames |-> d]
  /\ filesAtStart = files
  /\ bIdx = 1
  /\ succeeded = 0
  /\ failed = 0
  /\ errors = <<>>
  /\ bBefore = <<>>
  /\ bResults = <<>>
  /\ bReturned = "none"
  /\ docText = <<>>
  /\ fix = FreeTextFix
  /\ showConfirmation = FALSE
  /\ pc = "idle"
  /\ result = Pending
  /\ origText = <<>>
  /\ previewText = <<>>
  /\ edited = FALSE
  /\ choice = "none"
  /\ confirm2 = "none"
  /\ previewBy = "none"
  /\ saved = FALSE
  /\ issues = <<>>
  /\ rInput = <<>>
  /\ rFirst = <<>>
  /\ rIdx = 1
  /\ rPass = 1
  /\ rOutcome = <<>>
  /\ rReturned = "none"
  /\ NoQuickFix
  /\ NoHistory
  /\ NoPanel

BatchStartStale ==
  /\ pc = "idle"
  /\ bReturned = "none"
  /\ bIdx <= Len(fixes)
  /\ fix' = fixes[bIdx].fix
  /\ showConfirmation' = FALSE
  /\ docText' = filesAtStart[fixes[bIdx].file]
  /\ origText' = filesAtStart[fixes[bIdx].file]
  /\ pc' = "call"
  /\ result' = Pending
  /\ edited' = FALSE
  /\ saved' = FALSE
  /\ bBefore' = Append(bBefore, filesAtStart[fixes[bIdx].file])
  /\ UNCHANGED <<xvars, rvars, previewText, choice, confirm2, previewBy, fixes, bIdx,
                  succeeded, failed, errors, files, bResults, filesAtStart,
                  bReturned>>

\* the loop body calls this.applyFix(fixes[i].file, fixes[i].fix, false)
BatchStart ==
  /\ pc = "idle"
  /\ bReturned = "none"
  /\ bIdx <= Len(fixes)
  /\ fix' = fixes[bIdx].fix
  /\ showConfirmation' = FALSE
  /\ docText' = files[fixes[bIdx].file]
  /\ origText' = files[fixes[bIdx].file]
  /\ pc' = "call"
  /\ result' = Pending
  /\ edited' = FALSE
  /\ saved' = FALSE
  /\ bBefore' = Append(bBefore, files[fixes[bIdx].file])
  /\ UNCHANGED <<xvars, rvars, previewText, choice, confirm2, previewBy, fixes, bIdx,
                  succeeded, failed, errors, files, bResults, filesAtStart,
                  bReturned>>

\* applyFix has resolved: the counters and the errors are updated, i++
BatchCollect ==
  /\ pc = "done"
  /\ bReturned = "none"
  /\ bIdx <= Len(fixes)
  /\ IF result.success
       THEN /\ succeeded' = succeeded + 1
            /\ UNCHANGED <<failed, errors>>
       ELSE /\ failed' = failed + 1
            /\ errors' = Append(errors, errorEntry(fixes[bIdx], result))
            /\ UNCHANGED succeeded
  /\ files' = [files EXCEPT ![fixes[bIdx].file] = docText]
  /\ bResults' = Append(bResults, result)
  /\ bIdx' = bIdx + 1
  /\ pc' = "idle"
  /\ UNCHANGED <<xvars, docText, rvars, fix, showConfirmation, result, origText,
                  previewText, edited, choice, confirm2, previewBy, saved,
                  fixes, bBefore, filesAtStart, bReturned>>

\* applyFix has rejected: the await throws inside the withProgress callback
\* and applyMultipleFixes rejects
BatchReject ==
  /\ pc = "thrown"
  /\ bReturned = "none"
  /\ bIdx <= Len(fixes)
  /\ bReturned' = "rejected"
  /\ UNCHANGED <<xvars, docText, rvars, fvars, fixes, bIdx, succeeded, failed, errors,
                  files, bBefore, bResults, filesAtStart>>

\* the loop has ended: return { succeeded, failed, errors }
BatchReturn ==
  /\ pc = "idle"
  /\ bReturned = "none"
  /\ bIdx > Len(fixes)
  /\ bReturned' = "aggregate"
  /\ UNCHANGED <<xvars, docText, rvars, fvars, fixes, bIdx, succeeded, failed, errors,
                  files, bBefore, bResults, filesAtStart>>

NextBatch ==
  \/ BatchStart
  \/ FixNoWorkspace
  \/ FixThrows
  \/ FixOpenFails
  \/ FixOpen
  \/ FixInvalidFormat
  \/ FixInvalidRange
  \/ FixApplyUnconfirmed
  \/ FixSave
  \/ FixSaveNotSaved
  \/ FixSaveFails
  \/ FixShow
  \/ FixShowFails
  \/ BatchCollect
  \/ BatchReject
  \/ BatchReturn

SpecBatch == InitBatch /\ [][NextBatch]_vars


-----------------------------------------------------------------------------
(* applyDiagnostics and AIReviewCodeActionProvider (the Quick Fix) *)

MaxReviews == 2     \* most reviews run in a session

IssueFiles == {"a.ts", "b.ts"}

\* the text of a free-text suggestedFix
FreeText == <<"u", "s", "e">>

\* issue.suggestedFix is undefined
NoSuggestedFix ==
  [form |-> "none", type |-> "none", startLine |-> 0, endLine |-> 0,
   newCode |-> <<>>]

\* structured fixes of one line, at line 1 and at line 2
QuickCodeFixes ==
  {[form |-> "object", type |-> t, startLine |-> l, endLine |-> l,
    newCode |-> CodeOneLine] : t \in FixTypes, l \in {1, 2}}

\* the issues of a review: file, line and suggestedFix
QuickIssues ==
  {[file |-> f, line |-> l, suggestedFix |-> x] :
      f \in IssueFiles, l \in {1, 2},
      x \in QuickCodeFixes \cup {FreeTextFix, NoSuggestedFix}}

\* `${uri.toString()}:${range.start.line}:${range.start.character}`, the
\* range starting at (Math.max(0, issue.line - 1), 0)
fixKey(file, line0) == <<file, line0, 0>>

\* new vscode.Diagnostic(range, ...) of issue i; the range is
\* (line - 1, 0)-(line - 1, 100)
diagnosticOf(is, i) ==
  [file |-> is[i].file, line |-> Max(0, is[i].line - 1), issue |-> i]

\* fixesMap.set(key, value)
mapSet(m, key, value) ==
  [k \in DOMAIN m \cup {key} |-> IF k = key THEN value ELSE m[k]]

\* fixesMap after the loop of applyDiagnostics has reached the first n issues
RECURSIVE storeFixes(_, _)
storeFixes(is, n) ==
  IF n = 0 THEN <<>>
  ELSE IF is[n].suggestedFix = NoSuggestedFix THEN storeFixes(is, n - 1)
  ELSE mapSet(storeFixes(is, n - 1),
              fixKey(is[n].file, Max(0, is[n].line - 1)),
              is[n].suggestedFix)

\* the document after the edit of the code action has been applied
quickFixEdit(text, diagnostic, f) ==
  IF f.form = "text"
    THEN LET range == Range(diagnostic.line, 0, diagnostic.line, 100)
         IN  splice(text, offsetAt(text, range.start), offsetAt(text, range.end),
                    FreeText)
    ELSE LET lines == split(text)
             endIdx == Max(0, f.endLine - 1)
             fixRange == Range(Max(0, f.startLine - 1), 0, endIdx,
                               Len(lines[endIdx + 1]))
             startOffset == offsetAt(text, fixRange.start)
             endOffset == offsetAt(text, fixRange.end)
         IN  IF f.type = "replace"
               THEN splice(text, startOffset, endOffset, f.newCode)
             ELSE IF f.type = "insert"
               THEN splice(text, startOffset, startOffset, f.newCode \o <<NL>>)
             ELSE IF f.type = "delete"
               THEN splice(text, startOffset, endOffset, <<>>)
             ELSE text

\* the code action provideCodeActions returns for one diagnostic:
\* document.lineAt throws when the line is not a line of the document
codeAction(text, diagnostic) ==
  LET key == fixKey(diagnostic.file, diagnostic.line)
  IN  IF key \notin DOMAIN fixesMap
        THEN [kind |-> "none", fix |-> NoSuggestedFix, text |-> text]
      ELSE LET f == fixesMap[key]
           IN  IF f.form = "object" /\ Max(0, f.endLine - 1) >= lineCount(text)
                 THEN [kind |-> "threw", fix |-> f, text |-> text]
                 ELSE [kind |-> "edit", fix |-> f,
                       text |-> quickFixEdit(text, diagnostic, f)]

InitQuickFix ==
  /\ docText \in BatchDocuments
  /\ origText = docText
  /\ NoQuickFix
  /\ fix = FreeTextFix
  /\ showConfirmation = FALSE
  /\ pc = "idle"
  /\ result = Pending
  /\ previewText = <<>>
  /\ edited = FALSE
  /\ choice = "none"
  /\ confirm2 = "none"
  /\ previewBy = "none"
  /\ saved = FALSE
  /\ NoBatch
  /\ NoHistory
  /\ NoPanel
  /\ issues = <<>>
  /\ rInput = <<>>
  /\ rFirst = <<>>
  /\ rIdx = 1
  /\ rPass = 1
  /\ rOutcome = <<>>
  /\ rReturned = "none"

\* a review has run (with a workspace folder open, as reviewChangesBeforeMR
\* requires): the diagnostics of the earlier review are cleared and
\* applyDiagnostics(reviewResult.issues) clears and fills fixesMap
ApplyDiagnostics ==
  /\ qStage = "idle"
  /\ qReviews < MaxReviews
  /\ \E is \in SeqsUpTo(QuickIssues, MaxIssues) :
       /\ qIssues' = is
       /\ fixesMap' = storeFixes(is, Len(is))
       /\ diagnostics' = [i \in 1..Len(is) |-> diagnosticOf(is, i)]
  /\ qReviews' = qReviews + 1
  /\ UNCHANGED <<docText, rvars, fvars, bvars, hvars, pvars, qStage, qDiag,
                  qAction>>

\* the editor asks for the code actions of a diagnostic of the document
ProvideCodeActions ==
  /\ qStage = "idle"
  /\ \E d \in 1..Len(diagnostics) :
       /\ qDiag' = d
       /\ qAction' = codeAction(docText, diagnostics[d])
  /\ qStage' = "offered"
  /\ UNCHANGED <<docText, rvars, fvars, bvars, hvars, pvars, qIssues, fixesMap,
                  diagnostics, qReviews>>

\* the user picks "Apply AI Fix": the edit of the action is applied
ApplyCodeAction ==
  /\ qStage = "offered"
  /\ qAction.kind = "edit"
  /\ docText' = qAction.text
  /\ qStage' = "applied"
  /\ UNCHANGED <<rvars, fvars, bvars, hvars, pvars, qIssues, fixesMap,
                  diagnostics, qReviews, qDiag, qAction>>

NextQuickFix ==
  \/ ApplyDiagnostics
  \/ ProvideCodeActions
  \/ ApplyCodeAction

SpecQuickFix == InitQuickFix /\ [][NextQuickFix]_vars


-----------------------------------------------------------------------------
(* ReviewHistoryProvider *)

MaxAdds == 22       \* most reviews added in a session

\* if (this.history.length > 20)
HistoryCap == 20

\* the ReviewHistoryItem of the n-th review added
historyItem(n) == [review |-> n]

\* history[0] of an empty array
Undefined == [review |-> 0]

addReviewKeepsOldest(h, item) ==
  LET u == <<item>> \o h
  IN  IF Len(u) > HistoryCap THEN SubSeq(u, 2, HistoryCap + 1) ELSE u

\* history.unshift(item); history = history.slice(0, 20) when longer than 20
addReview(h, item) ==
  LET u == <<item>> \o h
  IN  IF Len(u) > HistoryCap THEN SubSeq(u, 1, HistoryCap) ELSE u

\* return this.history[0]
getLatestReview == IF history = <<>> THEN Undefined ELSE history[1]

InitHistory ==
  /\ NoHistory
  /\ NoQuickFix
  /\ NoPanel
  /\ docText = <<>>
  /\ origText = <<>>
  /\ fix = FreeTextFix
  /\ showConfirmation = FALSE
  /\ pc = "idle"
  /\ result = Pending
  /\ previewText = <<>>
  /\ edited = FALSE
  /\ choice = "none"
  /\ confirm2 = "none"
  /\ previewBy = "none"
  /\ saved = FALSE
  /\ NoBatch
  /\ issues = <<>>
  /\ rInput = <<>>
  /\ rFirst = <<>>
  /\ rIdx = 1
  /\ rPass = 1
  /\ rOutcome = <<>>
  /\ rReturned = "none"

\* addReview(result, ...): the item is put first, the list is cut and saved
AddReview ==
  /\ nAdded < MaxAdds
  /\ nAdded' = nAdded + 1
  /\ history' = addReview(history, historyItem(nAdded + 1))
  /\ savedHistory' = history'
  /\ added' = <<historyItem(nAdded + 1)>> \o added
  /\ UNCHANGED <<docText, rvars, fvars, bvars, qvars, pvars>>

\* clearHistory(): the list is emptied and saved
ClearHistory ==
  /\ history' = <<>>
  /\ savedHistory' = <<>>
  /\ added' = <<>>
  /\ UNCHANGED <<docText, rvars, fvars, bvars, qvars, pvars, nAdded>>

NextHistory ==
  \/ AddReview
  \/ ClearHistory

SpecHistory == InitHistory /\ [][NextHistory]_vars


-----------------------------------------------------------------------------
(* ReviewWebviewPanel *)

MaxMessages == 3    \* most messages the panel handles

\* the ReviewResult objects of the session (the review just made, a review
\* of the history)
ReviewIds == {1, 2}

\* issues as JSON.parse of the AI response gives them: no fixStatus
PanelIssues ==
  {[line |-> 1, hasFix |-> TRUE, fixStatus |-> "undefined"],
   [line |-> 2, hasFix |-> FALSE, fixStatus |-> "undefined"]}

\* message.issueIndex (0-based), also indices that have no issue
IssueIndices == (0 - 1)..MaxIssues

\* this._getHtmlContent(reviewResult, ...): the html shows the issues as they
\* are when it is built
render(id) == [id |-> id, issues |-> reviews[id]]

\* this._reviewResult.issues[issueIndex] is an issue
hasIssue(id, idx) == idx >= 0 /\ idx < Len(reviews[id])

\* the message of the given type has been handled on the panel's review
handled(type, idx) ==
  [type |-> type, review |-> panelReview, index |-> idx, n |-> lastOp.n + 1]

InitPanel ==
  /\ reviews \in [ReviewIds -> SeqsUpTo(PanelIssues, MaxIssues)]
  /\ livePanels = 0
  /\ currentPanel = FALSE
  /\ panelReview = 0
  /\ rendered = [id |-> 0, issues |-> <<>>]
  /\ lastPassed = 0
  /\ dismissals = {}
  /\ lastOp = [type |-> "none", review |-> 0, index |-> 0, n |-> 0]
  /\ NoQuickFix
  /\ NoHistory
  /\ docText = <<>>
  /\ origText = <<>>
  /\ fix = FreeTextFix
  /\ showConfirmation = FALSE
  /\ pc = "idle"
  /\ result = Pending
  /\ previewText = <<>>
  /\ edited = FALSE
  /\ choice = "none"
  /\ confirm2 = "none"
  /\ previewBy = "none"
  /\ saved = FALSE
  /\ NoBatch
  /\ issues = <<>>
  /\ rInput = <<>>
  /\ rFirst = <<>>
  /\ rIdx = 1
  /\ rPass = 1
  /\ rOutcome = <<>>
  /\ rReturned = "none"

\* createOrShow(reviewResult) without a panel: a panel is created and the
\* constructor stores and renders the review
CreatePanel ==
  /\ ~currentPanel
  /\ \E id \in ReviewIds :
       /\ panelReview' = id
       /\ rendered' = render(id)
       /\ lastPassed' = id
  /\ livePanels' = livePanels + 1
  /\ currentPanel' = TRUE
  /\ UNCHANGED <<docText, rvars, fvars, bvars, qvars, hvars, reviews,
                  dismissals, lastOp>>

\* createOrShow(reviewResult) with a panel: the panel is revealed and
\* update(reviewResult, ...) renders the review; update does not assign
\* this._reviewResult
ShowPanel ==
  /\ currentPanel
  /\ \E id \in ReviewIds :
       /\ rendered' = render(id)
       /\ lastPassed' = id
  /\ UNCHANGED <<docText, rvars, fvars, bvars, qvars, hvars, reviews,
                  livePanels, currentPanel, panelReview, dismissals, lastOp>>

\* the panel is closed: dispose()
DisposePanel ==
  /\ currentPanel
  /\ currentPanel' = FALSE
  /\ livePanels' = livePanels - 1
  /\ panelReview' = 0
  /\ rendered' = [id |-> 0, issues |-> <<>>]
  /\ lastPassed' = 0
  /\ UNCHANGED <<docText, rvars, fvars, bvars, qvars, hvars, reviews,
                  dismissals, lastOp>>

HandleDismissIssueRemoves ==
  /\ currentPanel
  /\ lastOp.n < MaxMessages
  /\ \E idx \in IssueIndices :
       /\ lastOp' = handled("dismissIssue", idx)
       /\ IF hasIssue(panelReview, idx)
            THEN /\ reviews' = [reviews EXCEPT ![panelReview] =
                       SubSeq(@, 1, idx) \o SubSeq(@, idx + 2, Len(@))]
                 /\ dismissals' = dismissals \cup {<<panelReview, idx + 1>>}
                 /\ rendered' = [id |-> panelReview, issues |-> reviews'[panelReview]]
                 /\ lastPassed' = panelReview
            ELSE UNCHANGED <<reviews, dismissals, rendered, lastPassed>>
  /\ UNCHANGED <<docText, rvars, fvars, bvars, qvars, hvars, livePanels,
                  currentPanel, panelReview>>

\* handleDismissIssue(issueIndex): the issue of the stored review is marked
\* dismissed and update(this._reviewResult, ...) renders the stored review
HandleDismissIssue ==
  /\ currentPanel
  /\ lastOp.n < MaxMessages
  /\ \E idx \in IssueIndices :
       /\ lastOp' = handled("dismissIssue", idx)
       /\ IF hasIssue(panelReview, idx)
            THEN /\ reviews' = [reviews EXCEPT
                       ![panelReview][idx + 1].fixStatus = "dismissed"]
                 /\ dismissals' = dismissals \cup {<<panelReview, idx + 1>>}
                 /\ rendered' = [id |-> panelReview, issues |-> reviews'[panelReview]]
                 /\ lastPassed' = panelReview
            ELSE UNCHANGED <<reviews, dismissals, rendered, lastPassed>>
  /\ UNCHANGED <<docText, rvars, fvars, bvars, qvars, hvars, livePanels,
                  currentPanel, panelReview>>

\* handleApplyFix(issueIndex): the chat is opened with the suggested fix;
\* nothing is applied and no fixStatus is set
HandleApplyFix ==
  /\ currentPanel
  /\ lastOp.n < MaxMessages
  /\ \E idx \in IssueIndices : lastOp' = handled("applyFix", idx)
  /\ UNCHANGED <<docText, rvars, fvars, bvars, qvars, hvars, reviews,
                  livePanels, currentPanel, panelReview, rendered, lastPassed,
                  dismissals>>

\* handleShowFixDiff(issueIndex) reads this._reviewResult.issues[issueIndex]
HandleShowFixDiff ==
  /\ currentPanel
  /\ lastOp.n < MaxMessages
  /\ \E idx \in IssueIndices : lastOp' = handled("showFixDiff", idx)
  /\ UNCHANGED <<docText, rvars, fvars, bvars, qvars, hvars, reviews,
                  livePanels, currentPanel, panelReview, rendered, lastPassed,
                  dismissals>>

\* handleExplainIssue(issueIndex) reads this._reviewResult.issues[issueIndex]
HandleExplainIssue ==
  /\ currentPanel
  /\ lastOp.n < MaxMessages
  /\ \E idx \in IssueIndices : lastOp' = handled("explainIssue", idx)
  /\ UNCHANGED <<docText, rvars, fvars, bvars, qvars, hvars, reviews,
                  livePanels, currentPanel, panelReview, rendered, lastPassed,
                  dismissals>>

\* exportReport(format) exports this._reviewResult
ExportReport ==
  /\ currentPanel
  /\ lastOp.n < MaxMessages
  /\ lastOp' = handled("exportReport", 0)
  /\ UNCHANGED <<docText, rvars, fvars, bvars, qvars, hvars, reviews,
                  livePanels, currentPanel, panelReview, rendered, lastPassed,
                  dismissals>>

NextPanel ==
  \/ CreatePanel
  \/ ShowPanel
  \/ DisposePanel
  \/ HandleDismissIssue
  \/ HandleApplyFix
  \/ HandleShowFixDiff
  \/ HandleExplainIssue
  \/ ExportReport

SpecPanel == InitPanel /\ [][NextPanel]_vars


----------------------------------------------------------------------------
(* Properties of the line reconciliation *)

\* the lines among ls whose trimmed content contains the trimmed snippet
Matching(ls, snippet) ==
  LET t == trim(snippet)
  IN  {i \in 1..Len(ls) : includes(trim(ls[i]), t)}

\* the claimed line (empty when out of bounds) contains the snippet
ClaimedContains(ls, issue) ==
  includes(trim(currentLineContent(ls, issue.line)), trim(issue.codeSnippet))

\* the first run has dealt with issue k; what it left
Done1(k) == rPass = 2 \/ k < rIdx
After1(k) == IF rPass = 1 THEN issues[k] ELSE rFirst[k]
\* the second run has dealt with issue k
Done2(k) == rPass = 2 /\ k < rIdx
\* the first run opened the document of issue k and verified the issue
Verified1(k) == Done1(k) /\ rOutcome[k] = "verified"

\* C1: an issue whose trimmed snippet is longer than 5 characters and is not
\* contained in the trimmed claimed line is moved to the FIRST line of the
\* file, in file order, whose trimmed content contains the trimmed snippet.
C1_EarliestMatch ==
  \A k \in 1..Len(rInput) :
    Verified1(k) =>
      LET ls == split(docText)
          m == Matching(ls, rInput[k].codeSnippet)
      IN  ( /\ Len(trim(rInput[k].codeSnippet)) > 5
            /\ ~ClaimedContains(ls, rInput[k])
            /\ m # {} )
          => /\ After1(k).line \in m
             /\ \A j \in m : After1(k).line <= j

C1_Witness ==
  \E k \in 1..Len(rInput) :
    /\ Verified1(k)
    /\ After1(k).line # rInput[k].line
    /\ After1(k).line > 1
    /\ Len(trim(rInput[k].codeSnippet)) > 5
    /\ ~ClaimedContains(split(docText), rInput[k])
    /\ Cardinality(Matching(split(docText), rInput[k].codeSnippet)) >= 2

\* C2: when the trimmed claimed line contains the trimmed snippet, the issue's
\* line is left as claimed, also when an earlier line contains the snippet.
C2_AcceptedClaimUnchanged ==
  \A k \in 1..Len(rInput) :
    (Done1(k) /\ rInput[k].hasSnippet /\ After1(k) # rInput[k])
    => ~ClaimedContains(split(docText), rInput[k])

C2_Witness ==
  \E k \in 1..Len(rInput) :
    /\ Verified1(k)
    /\ Len(trim(rInput[k].codeSnippet)) > 5
    /\ ClaimedContains(split(docText), rInput[k])
    /\ \E j \in Matching(split(docText), rInput[k].codeSnippet) :
         j < rInput[k].line

\* C3: reconciliation never raises: getReview never returns null because of
\* it, every issue has been dealt with when it returns, and the line stays as
\* claimed when the snippet is absent, when its trimmed length is <= 5, and
\* when no line of the file (empty file included) contains it.
C3_BestEffort ==
  /\ rReturned # "null"
  /\ rReturned = "result" => \A k \in 1..Len(rInput) : rOutcome[k] # "pending"
  /\ \A k \in 1..Len(rInput) :
       (Done1(k) /\ After1(k) # rInput[k])
       => /\ rInput[k].hasSnippet
          /\ Len(trim(rInput[k].codeSnippet)) > 5
          /\ Matching(split(docText), rInput[k].codeSnippet) # {}

C3_Witness ==
  /\ rReturned = "result"
  /\ \E k1, k2 \in 1..Len(rInput) :
       /\ k1 < k2
       /\ rOutcome[k1] = "warned"
       /\ rOutcome[k2] = "verified"
       /\ Len(trim(rInput[k2].codeSnippet)) > 5
       /\ Matching(split(docText), rInput[k2].codeSnippet) = {}

\* C4 as stated: an issue whose codeSnippet is longer than 5 characters and
\* appears on exactly one line of the file is set to that line whatever line
\* was claimed, and a second run leaves the line unchanged.
C4_UniqueMatchRawLength ==
  \A k \in 1..Len(rInput) :
    (Verified1(k) /\ Len(rInput[k].codeSnippet) > 5) =>
      LET m == Matching(split(docText), rInput[k].codeSnippet)
      IN  Cardinality(m) = 1
          => /\ After1(k).line \in m
             /\ Done2(k) => issues[k].line = After1(k).line

\* C4 (amended): an issue whose TRIMMED codeSnippet is longer than 5
\* characters and appears on exactly one line of the file that was read is
\* set to that line whatever line was claimed, and a second run leaves the
\* line unchanged.
C4_UniqueMatchIdempotent ==
  \A k \in 1..Len(rInput) :
    (Verified1(k) /\ Len(trim(rInput[k].codeSnippet)) > 5) =>
      LET m == Matching(split(docText), rInput[k].codeSnippet)
      IN  Cardinality(m) = 1
          => /\ After1(k).line \in m
             /\ Done2(k) => issues[k].line = After1(k).line

C4_Witness ==
  \E k \in 1..Len(rInput) :
    /\ Done2(k)
    /\ rOutcome[k] = "verified"
    /\ Len(trim(rInput[k].codeSnippet)) > 5
    /\ rInput[k].line # issues[k].line
    /\ Len(split(docText)) >= 2
    /\ Matching(split(docText), rInput[k].codeSnippet) = {issues[k].line}

----------------------------------------------------------------------------
(* Properties of the line number validation and of the edits of applyFix *)

\* the document was opened: the call got as far as the validation
Opened ==
  pc \notin {"call", "thrown"} /\ result.error.kind \notin {"NoWorkspace", "OpenFailed"}

\* lines and line count of the document applyFix was called on
OrigLines == split(origText)
OrigCount == Len(split(origText))

StartOutOfRange == fix.startLine < 1 \/ fix.startLine > OrigCount + 1
EndOutOfRange == fix.endLine < 1 \/ fix.endLine > OrigCount

\* C5: a fix with startLine < 1 or startLine > lineCount + 1, or (replace and
\* delete) endLine < 1 or endLine > lineCount, never gets past the validation:
\* applyFix resolves to success = false with an error naming the failing bound,
\* its value and the valid range, and the document is unchanged.
C5_StrictValidation ==
  ( /\ Opened
    /\ fix.form = "object"
    /\ \/ StartOutOfRange
       \/ fix.type \in {"replace", "delete"} /\ EndOutOfRange )
  => /\ pc \in {"opened", "done"}
     /\ ~edited
     /\ docText = origText
     /\ pc = "done" =>
          /\ ~result.success
          /\ result.error =
               IF StartOutOfRange
                 THEN [kind |-> "StartLine", value |-> fix.startLine,
                       lo |-> 1, hi |-> OrigCount + 1]
                 ELSE [kind |-> "EndLine", value |-> fix.endLine,
                       lo |-> 1, hi |-> OrigCount]

C5_Witness ==
  /\ pc = "done"
  /\ fix.type = "delete"
  /\ fix.startLine = 1
  /\ fix.endLine = OrigCount + 1
  /\ result.error.kind = "EndLine"
  /\ result.error.hi = OrigCount
  /\ docText = origText

\* C6: a replace or delete fix with startLine > lineCount (startLine =
\* lineCount + 1 included) fails validation: success = false and no edit.
C6_StartPastLastLineFails ==
  ( /\ pc = "done"
    /\ Opened
    /\ fix.form = "object"
    /\ fix.type \in {"replace", "delete"}
    /\ fix.startLine > OrigCount )
  => /\ ~result.success
     /\ ~edited
     /\ docText = origText

\* C7: a replace or delete fix with startLine > endLine is a validation
\* error: success = false, document unchanged, the range is never applied.
C7_OutOfOrderRangeFails ==
  ( /\ pc = "done"
    /\ Opened
    /\ fix.form = "object"
    /\ fix.type \in {"replace", "delete"}
    /\ fix.startLine > fix.endLine )
  => /\ ~result.success
     /\ ~edited
     /\ docText = origText

\* C8: an insert with 1 <= startLine <= lineCount + 1 passes validation
\* whatever its endLine, and the edit applied is the one of the same insert
\* with any other endLine.
C8_InsertIgnoresEndLine ==
  ( /\ pc = "done"
    /\ Opened
    /\ fix.form = "object"
    /\ fix.type = "insert"
    /\ fix.startLine >= 1
    /\ fix.startLine <= OrigCount + 1 )
  => /\ result.error.kind \notin {"StartLine", "EndLine"}
     /\ edited => docText = applyEdit(origText, [fix EXCEPT !.endLine = 1])

\* C9 as stated: a valid delete of lines startLine..endLine of L1..Ln yields
\* exactly L1..L(startLine-1) followed by L(endLine+1)..Ln.
C9_DeleteExactLines ==
  ( /\ edited
    /\ fix.type = "delete"
    /\ fix.startLine <= fix.endLine )
  => docText = join(SubSeq(OrigLines, 1, fix.startLine - 1)
                      \o SubSeq(OrigLines, fix.endLine + 1, OrigCount))

\* C9 (amended): a valid delete of lines startLine..endLine of L1..Ln yields
\* exactly L1..L(startLine-1) followed by L(endLine+1)..Ln when endLine is not
\* the last line; when endLine is the last line the span ends at the end of
\* the document, the terminator before startLine stays and the result is
\* L1..L(startLine-1) followed by one empty line (the empty document when
\* startLine = 1).
C9_DeleteLines ==
  ( /\ edited
    /\ fix.type = "delete"
    /\ fix.startLine <= fix.endLine )
  => docText =
       IF fix.endLine < OrigCount
         THEN join(SubSeq(OrigLines, 1, fix.startLine - 1)
                     \o SubSeq(OrigLines, fix.endLine + 1, OrigCount))
         ELSE join(SubSeq(OrigLines, 1, fix.startLine - 1) \o << <<>> >>)

C9_Witness ==
  /\ edited
  /\ fix.type = "delete"
  /\ fix.startLine = 2
  /\ fix.endLine = 2
  /\ OrigCount = 3
  /\ OrigLines[2] # <<>>
  /\ split(docText) = <<OrigLines[1], OrigLines[3]>>

\* C10: a valid replace of lines startLine..endLine puts newCode in the place
\* of exactly those lines: the lines before startLine and after endLine are
\* unchanged and the terminator after endLine is kept.
C10_ReplaceLines ==
  ( /\ edited
    /\ fix.type = "replace"
    /\ fix.startLine <= fix.endLine )
  => split(docText) = SubSeq(OrigLines, 1, fix.startLine - 1)
                        \o split(fix.newCode)
                        \o SubSeq(OrigLines, fix.endLine + 1, OrigCount)

C10_Witness ==
  /\ edited
  /\ fix.type = "replace"
  /\ fix.startLine = 2
  /\ fix.endLine = 2
  /\ OrigCount = 3
  /\ fix.newCode = CodeOneLine
  /\ OrigLines[3] # <<>>
  /\ split(docText) = <<OrigLines[1], CodeOneLine, OrigLines[3]>>

\* C11: a valid insert at startLine puts newCode and one terminator right
\* before the content of line startLine; no existing line is removed or
\* altered (an append at lineCount + 1 comes after the last line).
C11_InsertBeforeLine ==
  (edited /\ fix.type = "insert")
  => docText = join(SubSeq(OrigLines, 1, fix.startLine - 1)
                      \o <<fix.newCode>>
                      \o SubSeq(OrigLines, fix.startLine, OrigCount))

\* C12: the content written to the preview file (by showDiff or by
\* showDiffPreview) for a document and a valid fix is the content of the
\* document after applyFix has applied that fix.
C12_PreviewIsWhatGetsWritten ==
  (edited /\ previewBy # "none") => previewText = docText

\* C13: when applyFix resolves, success = false implies that the document is
\* as it was before the call and success = true implies that the edit was
\* written.
C13_AllOrNothing ==
  pc = "done" =>
    /\ ~result.success => docText = origText
    /\ result.success => edited

\* C14: applyFix resolves to success = true only if the edit was applied and
\* the document was persisted; every failure carries an error.
C14_SuccessMeansPersisted ==
  pc = "done" =>
    /\ result.success => edited /\ saved
    /\ ~result.success => result.error.kind # "none"

\* C15: the edit is applied to the content its range was validated against
\* and its preview was computed from, also when the document is modified
\* while a prompt is pending.
C15_EditOnValidatedContent ==
  [][ (~edited /\ edited')
      => /\ docText = origText
         /\ previewBy = "showDiffPreview"
              => previewText = showDiffPreview(docText, fix) ]_vars

\* the error entries of the first k fixes, in list order
RECURSIVE ExpectedErrors(_)
ExpectedErrors(k) ==
  IF k = 0 THEN <<>>
  ELSE IF bResults[k].success
         THEN ExpectedErrors(k - 1)
         ELSE Append(ExpectedErrors(k - 1), errorEntry(fixes[k], bResults[k]))

\* C16: applyMultipleFixes runs the fixes one at a time in list order,
\* processes all N of them whatever their outcomes, and returns
\* succeeded + failed = N with one error entry per failed fix, in list order,
\* each carrying the file of its fix.
C16_BatchAggregation ==
  /\ bReturned # "rejected"
  /\ Len(bBefore) - Len(bResults) \in {0, 1}
  /\ Len(bResults) = bIdx - 1
  /\ succeeded + failed = Len(bResults)
  /\ errors = ExpectedErrors(Len(bResults))
  /\ bReturned = "aggregate" => succeeded + failed = Len(fixes)

\* fix k of the batch is valid against the document its file held when
\* applyMultipleFixes was called
ValidAtStart(k) ==
  /\ parseFixFormat(fixes[k].fix)
  /\ validate(fixes[k].fix, lineCount(filesAtStart[fixes[k].file])) = NoError

\* the editor API failed during fix k (no workspace, open, apply, save, show)
EditorFailed(k) ==
  /\ ~bResults[k].success
  /\ bResults[k].error.kind \notin {"InvalidFormat", "StartLine", "EndLine"}

\* C17: a batch of N fixes of which exactly one, fix k, is invalid against the
\* document, the editor API not failing, returns succeeded = N - 1,
\* failed = 1 and the single error entry of fix k, also when the fixes target
\* the same file.
C17_OneInvalidFix ==
  \A k \in 1..Len(fixes) :
    ( /\ bReturned = "aggregate"
      /\ ~ValidAtStart(k)
      /\ \A j \in 1..Len(fixes) : j # k => ValidAtStart(j)
      /\ \A j \in 1..Len(fixes) : ~EditorFailed(j) )
    => /\ succeeded = Len(fixes) - 1
       /\ failed = 1
       /\ errors = <<errorEntry(fixes[k], bResults[k])>>

InvalidFix ==
  \/ fix.form = "text"
  \/ fix.startLine < 1
  \/ fix.startLine > OrigCount + 1
  \/ fix.endLine < 1
  \/ fix.endLine > OrigCount

\* the orders of the steps of applyFix
StepOrder ==
  {<<"call", "opened">>, <<"call", "done">>, <<"call", "thrown">>,
   <<"opened", "done">>, <<"opened", "confirm">>, <<"opened", "save">>,
   <<"confirm", "save">>, <<"confirm", "done">>, <<"confirm", "confirm2">>,
   <<"confirm2", "save">>, <<"confirm2", "done">>,
   <<"save", "show">>, <<"save", "done">>, <<"show", "done">>}

\* C18: a fix that fails parsing or validation goes straight to the failed
\* result: no prompt is answered, no diff preview is written by applyFix, no
\* edit is applied; and the steps of applyFix follow one another only as
\* validate -> (confirm | cancel) -> apply -> (applied | failed) or
\* validate -> failed.
C18_InvalidSkipsConfirmation ==
  /\ [] ( (Opened /\ InvalidFix)
          => /\ pc \in {"opened", "done"}
             /\ choice = "none"
             /\ confirm2 = "none"
             /\ previewBy # "showDiffPreview"
             /\ ~edited
             /\ pc = "done" =>
                  /\ ~result.success
                  /\ result.error.kind \in {"InvalidFormat", "StartLine", "EndLine"} )
  /\ [][pc' = pc \/ <<pc, pc'>> \in StepOrder]_vars

C18_Witness ==
  /\ pc = "done"
  /\ showConfirmation
  /\ fix.form = "object"
  /\ fix.startLine = OrigCount + 2
  /\ result.error.kind = "StartLine"
  /\ choice = "none"

Declined == {"Cancel", "undefined"}

\* C19: when the user declines the first prompt or the one after Show Diff
\* (Cancel, or the dialog dismissed), applyFix resolves to success = false
\* with the error "User cancelled" and the document is unchanged; no other
\* failure gives that error.
C19_UserCancelled ==
  /\ (pc = "done" /\ (choice \in Declined \/ confirm2 \in Declined))
     => /\ result = Failure("UserCancelled", 0, 0, 0)
        /\ docText = origText
        /\ ~edited
  /\ result.error.kind = "UserCancelled"
     => (choice \in Declined \/ confirm2 \in Declined)

C19_Witness ==
  /\ pc = "done"
  /\ choice = "Show Diff"
  /\ confirm2 = "undefined"
  /\ previewBy = "showDiffPreview"
  /\ previewText # origText
  /\ result.error.kind = "UserCancelled"
  /\ docText = origText

\* C20: applyFix always resolves to a FixApplicationResult: it never throws
\* or rejects.
C20_NeverThrows == pc # "thrown"

\* the fix is of malformed shape
Malformed ==
  \/ fix.type \notin FixTypes
  \/ Absent(fix) \cap {"type", "startLine", "endLine", "newCode"} # {}

\* C21: a fix whose type is none of replace / insert / delete or that lacks
\* startLine, endLine or newCode makes applyFix resolve to success = false
\* with the document unchanged.
C21_MalformedFixFails ==
  (Malformed /\ pc = "done") => (~result.success /\ docText = origText)

\* C22: a free-text suggestedFix is never turned into an edit of the
\* document: the Quick Fix offers no edit for it and the document stays as it
\* was.
C22_FreeTextNeverApplied ==
  (qStage # "idle" /\ qAction.fix.form = "text")
  => (qAction.kind # "edit" /\ docText = origText)

\* C28: for a structured fix whose range is valid for the document, the
\* edit of the Quick Fix gives the document content that applyFix gives.
C28_QuickFixAgreesWithApplyFix ==
  ( /\ qStage = "applied"
    /\ qAction.fix.form = "object"
    /\ validate(qAction.fix, lineCount(origText)) = NoError )
  => docText = applyEdit(origText, qAction.fix)

\* C29: the fix looked up for a diagnostic is the suggestedFix of the issue
\* that produced the diagnostic (none when that issue has none), and every
\* entry of fixesMap comes from an issue of the current diagnostics.
C29_DiagnosticHasOwnFix ==
  /\ qStage # "idle"
     => LET issue == qIssues[diagnostics[qDiag].issue]
        IN  /\ qAction.fix = issue.suggestedFix
            /\ issue.suggestedFix = NoSuggestedFix <=> qAction.kind = "none"
  /\ \A key \in DOMAIN fixesMap :
       \E i \in 1..Len(qIssues) :
         /\ key = fixKey(qIssues[i].file, Max(0, qIssues[i].line - 1))
         /\ fixesMap[key] = qIssues[i].suggestedFix

\* C23: a valid replace fix over lines s..e whose newCode has as many lines
\* as the range, followed by the replace of s..e with the text those lines
\* had, gives back the document (on the edit path and on the preview path).
C23_ReplaceRoundTrip ==
  ( /\ pc = "back"
    /\ fix.startLine <= fix.endLine
    /\ lineCount(fix.newCode) = fix.endLine - fix.startLine + 1 )
  => (docText = origText /\ previewText = origText)

C23_Witness ==
  /\ pc = "back"
  /\ fix.newCode = CodeTwoLines
  /\ fix.startLine = 2
  /\ fix.endLine = 3
  /\ OrigLines = <<LineA, LineBB, LineEmpty>>
  /\ docText = origText
  /\ previewText = origText

\* the workspace edit of fix k of the batch was applied
EditApplied(k) ==
  \/ bResults[k].success
  \/ bResults[k].error.kind \in {"SaveFailed", "ShowFailed"}

\* the content of a file once the first k fixes of the batch are done, every
\* fix applied with its startLine and endLine as given
RECURSIVE ContentAfter(_, _)
ContentAfter(file, k) ==
  IF k = 0 THEN filesAtStart[file]
  ELSE IF fixes[k].file = file /\ EditApplied(k)
    THEN applyEdit(ContentAfter(file, k - 1), fixes[k].fix)
    ELSE ContentAfter(file, k - 1)

\* C27: in a batch, fix i is validated and applied against the content that
\* fixes 1..i-1 left in its file, with its startLine and endLine as given
\* (stated where the loop stands between two fixes or has just called
\* applyFix: the contents and results it speaks of change nowhere else).
C27_BatchUsesCurrentContent ==
  pc \in {"idle", "call"} =>
    /\ \A i \in 1..Len(bBefore) :
         bBefore[i] = ContentAfter(fixes[i].file, i - 1)
    /\ \A i \in 1..Len(bResults) :
         LET f == fixes[i].fix
             e == validate(f, lineCount(bBefore[i]))
         IN  /\ EditApplied(i) => (parseFixFormat(f) /\ e = NoError)
             /\ bResults[i].error.kind \in {"StartLine", "EndLine"}
                  => bResults[i].error = e
             /\ (parseFixFormat(f) /\ e # NoError)
                  => bResults[i].error.kind \in {"NoWorkspace", "OpenFailed", e.kind}
    /\ pc = "idle"
         => \A file \in BatchFileNames :
              files[file] = ContentAfter(file, Len(bResults))

C27_Witness ==
  /\ bReturned = "aggregate"
  /\ Len(fixes) = 2
  /\ fixes[1].file = fixes[2].file
  /\ succeeded = 2
  /\ ~ValidAtStart(2)
  /\ bBefore[2] # filesAtStart[fixes[2].file]
  /\ files[fixes[2].file] = applyEdit(bBefore[2], fixes[2].fix)

\* C26: the history is the min(20, n) reviews most recently added since the
\* last clear, most recent first; getLatestReview is the most recently added
\* review (undefined when there is none); the list in globalState is the list
\* in memory.
C26_HistoryCappedNewestFirst ==
  /\ Len(history) <= HistoryCap
  /\ history = SubSeq(added, 1, Min(HistoryCap, Len(added)))
  /\ getLatestReview = IF added = <<>> THEN Undefined ELSE added[1]
  /\ savedHistory = history

C26_Witness ==
  /\ Len(added) > HistoryCap
  /\ Len(history) = HistoryCap
  /\ history[1] = historyItem(nAdded)
  /\ history[HistoryCap] = historyItem(nAdded - HistoryCap + 1)
  /\ savedHistory = history

FixStatuses == {"pending", "applied", "dismissed", "failed"}

\* C24: the fixStatus of every issue is one of pending, applied, dismissed,
\* failed; it is pending until the issue is dismissed or its fix applied, and
\* once the applyFix message of an issue with a fix has been handled it is
\* applied or failed.
C24_FixStatusLifecycle ==
  /\ \A id \in DOMAIN reviews : \A k \in 1..Len(reviews[id]) :
       /\ reviews[id][k].fixStatus \in FixStatuses
       /\ <<id, k>> \notin dismissals
            => reviews[id][k].fixStatus \in {"pending", "applied", "failed"}
  /\ ( /\ lastOp.type = "applyFix"
       /\ hasIssue(lastOp.review, lastOp.index)
       /\ reviews[lastOp.review][lastOp.index + 1].hasFix )
     => reviews[lastOp.review][lastOp.index + 1].fixStatus \in {"applied", "failed"}

\* C25: a dismissIssue message leaves the issue list with the same length
\* and order; the issue it targets gets fixStatus = dismissed with its other
\* fields unchanged, all other issues are unchanged, and an index with no
\* issue changes nothing; so the dismissed issues are those that were
\* targeted.
C25_DismissOnlyMarks ==
  /\ [][ (lastOp'.n # lastOp.n /\ lastOp'.type = "dismissIssue")
         => LET id == lastOp'.review
                k == lastOp'.index + 1
            IN  /\ DOMAIN reviews' = DOMAIN reviews
                /\ \A r \in DOMAIN reviews : Len(reviews'[r]) = Len(reviews[r])
                /\ \A r \in DOMAIN reviews : \A j \in 1..Len(reviews[r]) :
                     reviews'[r][j] =
                       IF r = id /\ j = k
                         THEN [reviews[r][j] EXCEPT !.fixStatus = "dismissed"]
                         ELSE reviews[r][j]
                /\ ~hasIssue(id, lastOp'.index) => reviews' = reviews ]_vars
  /\ [] ( \A id \in DOMAIN reviews : \A k \in 1..Len(reviews[id]) :
            reviews[id][k].fixStatus = "dismissed" <=> <<id, k>> \in dismissals )

C25_Witness ==
  /\ lastOp.type = "dismissIssue"
  /\ lastOp.index = 1
  /\ Len(reviews[lastOp.review]) = 2
  /\ reviews[lastOp.review][2].fixStatus = "dismissed"
  /\ reviews[lastOp.review][1].fixStatus # "dismissed"
  /\ reviews[lastOp.review][1].line # reviews[lastOp.review][2].line

\* C30: there is at most one panel, and the review the panel has stored (on
\* which dismissIssue, showFixDiff, explainIssue and exportReport work) is
\* the review last passed to createOrShow or update, which is the one
\* rendered.
C30_PanelActsOnDisplayedReview ==
  /\ livePanels <= 1
  /\ currentPanel => (panelReview = lastPassed /\ rendered.id = panelReview)

====
